---- MODULE Spec2Model ----
(***************************************************************************)
(* Model of pyvisascripts/query_srs.py: the SR830 query planner            *)
(* (SR830Communicator.get_query_list), the response parser                 *)
(* (SR830Communicator.parse_responses) and the session query_device.       *)
(*                                                                         *)
(* Python strings are modelled as sequences of one-character strings, so   *)
(* that concatenation and str.split are computed as the code computes      *)
(* them.  Attribute names and units are never split or concatenated and    *)
(* stay atomic strings.                                                    *)
(***************************************************************************)
EXTENDS Integers, Sequences, FiniteSets

VARIABLES pc, provided_fields, requested, queries, sent, responses,
          query_responses, attributes, error

vars == <<pc, provided_fields, requested, queries, sent, responses,
          query_responses, attributes, error>>

---------------------------------------------------------------------------
(* Bounds of the model. *)

\* largest number of names passed to set_requested_data when the parser is explored
MaxFields == 2
\* largest number of response strings handed to parse_responses
MaxResponses == 2
\* largest length of one response string handed to parse_responses
MaxResponseLen == 2
\* largest number of values in one reply of the device during a session
MaxReplyValues == 6

---------------------------------------------------------------------------
(* SR830Params *)

end_of_str == "\n"
attrib_separator == ","
snap_request_str == <<"S", "N", "A", "P", "?">>
snap_ids_range == <<2, 6>>

---------------------------------------------------------------------------
(* SR830Communicator.__init__: the attribute table, in declaration order   *)
(* (the order of vars(self)).  query_str = None is the empty string: the   *)
(* code only tests its truthiness.                                         *)

SR830AttribMeta(name, units, snap_id, query_str) ==
    [name |-> name, units |-> units, snap_id |-> snap_id, query_str |-> query_str]

Table ==
    << SR830AttribMeta("x", "V", <<"1">>, <<"O", "U", "T", "P", "?", "1">>),
       SR830AttribMeta("y", "V", <<"2">>, <<"O", "U", "T", "P", "?", "2">>),
       SR830AttribMeta("r", "V", <<"3">>, <<"O", "U", "T", "P", "?", "3">>),
       SR830AttribMeta("theta", "deg", <<"4">>, <<"O", "U", "T", "P", "?", "4">>),
       SR830AttribMeta("aux1", "V", <<"5">>, <<"O", "A", "U", "X", "?", "1">>),
       SR830AttribMeta("aux2", "V", <<"6">>, <<"O", "A", "U", "X", "?", "2">>),
       SR830AttribMeta("aux3", "V", <<"7">>, <<"O", "A", "U", "X", "?", "3">>),
       SR830AttribMeta("aux4", "V", <<"8">>, <<"O", "A", "U", "X", "?", "4">>),
       SR830AttribMeta("ref_freq", "Hz", <<"9">>, <<>>),
       SR830AttribMeta("ch1", "n/a", <<"1", "0">>, <<"O", "U", "T", "R", "?", "1">>),
       SR830AttribMeta("ch2", "n/a", <<"1", "1">>, <<"O", "U", "T", "R", "?", "2">>) >>

Names == {Table[i].name : i \in 1..Len(Table)}

\* a name that is no attribute of the communicator
UnknownNames == {"z"}

---------------------------------------------------------------------------
(* Helpers for Python lists and strings *)

\* str.split(sep), state of the scan: rest of the string, current piece,
\* pieces so far.  An empty piece is kept; the result is never empty.
RECURSIVE splitScan(_, _, _, _)
splitScan(s, sep, cur, acc) ==
    IF s = <<>> THEN Append(acc, cur)
    ELSE IF Head(s) = sep
         THEN splitScan(Tail(s), sep, <<>>, Append(acc, cur))
         ELSE splitScan(Tail(s), sep, Append(cur, Head(s)), acc)

split(s, sep) == splitScan(s, sep, <<>>, <<>>)

\* the attributes with requested = True, in the order of vars(self)
RequestedAttrs(req) == SelectSeq(Table, LAMBDA a : req[a.name])

---------------------------------------------------------------------------
(* SR830Communicator.get_query_list *)

\* first loop: the direct queries of the requested attributes that have one
CollectIndividualQueries(req) ==
    LET with_query == SelectSeq(RequestedAttrs(req), LAMBDA a : a.query_str # <<>>)
    IN  [i \in 1..Len(with_query) |-> with_query[i].query_str]

\* first loop: the snap ids of all requested attributes
CollectSnapIds(req) ==
    [i \in 1..Len(RequestedAttrs(req)) |-> RequestedAttrs(req)[i].snap_id]

\* the guard of the raise IOError("res_freq alone was requested ...")
LoneRequestRaises(snap_ids, individual_queries) ==
    Len(snap_ids) = 1 /\ Len(individual_queries) # 0

\* variant: the outer loop stops while exactly the minimum is left
SnapLoopCondStrict(num_ids_pre_query_creation) ==
    num_ids_pre_query_creation > snap_ids_range[1]

\* the guard of the outer while loop
SnapLoopCond(num_ids_pre_query_creation) ==
    num_ids_pre_query_creation >= snap_ids_range[1]

last_query_check(num_ids_pre_query_creation, snap_ids) ==
    num_ids_pre_query_creation <= snap_ids_range[2] /\ snap_ids # <<>>

queries_remaining_check(num_ids_pre_query_creation, snap_ids) ==
    /\ num_ids_pre_query_creation > snap_ids_range[2]
    /\ Len(snap_ids) % snap_ids_range[2] >= snap_ids_range[1]

\* query += snap_ids.pop(0) + separator
AddSnapId(query, snap_ids) == query \o Head(snap_ids) \o <<attrib_separator>>

\* the inner loop, entered once before its condition is first evaluated;
\* snap_ids.pop(0) on an empty list raises IndexError
RECURSIVE BuildSnapQuery(_, _, _)
BuildSnapQuery(query, snap_ids, num_ids_pre_query_creation) ==
    IF snap_ids = <<>>
    THEN [err |-> "IndexError", query |-> query, snap_ids |-> snap_ids]
    ELSE LET q == AddSnapId(query, snap_ids)
             rest == Tail(snap_ids)
         IN  IF \/ last_query_check(num_ids_pre_query_creation, rest)
                \/ queries_remaining_check(num_ids_pre_query_creation, rest)
             THEN BuildSnapQuery(q, rest, num_ids_pre_query_creation)
             ELSE [err |-> "none", query |-> q, snap_ids |-> rest]

\* the outer loop
RECURSIVE BuildSnapQueries(_, _)
BuildSnapQueries(individual_queries, snap_ids) ==
    IF SnapLoopCond(Len(snap_ids))
    THEN LET b == BuildSnapQuery(snap_request_str, snap_ids, Len(snap_ids))
         IN  IF b.err # "none"
             THEN [err |-> b.err, queries |-> <<>>]
             ELSE BuildSnapQueries(Append(individual_queries, b.query), b.snap_ids)
    ELSE [err |-> "none", queries |-> individual_queries]

get_query_list(req) ==
    LET individual_queries == CollectIndividualQueries(req)
        snap_ids == CollectSnapIds(req)
    IN  IF LoneRequestRaises(snap_ids, individual_queries)
        THEN [err |-> "IOError", queries |-> <<>>]
        ELSE IF Len(snap_ids) > 1
             THEN BuildSnapQueries(<<>>, snap_ids)
             ELSE [err |-> "none", queries |-> individual_queries]

---------------------------------------------------------------------------
(* SR830Communicator.parse_responses *)

\* the first loop: every response split on the separator, flattened
RECURSIVE FlattenResponses(_)
FlattenResponses(resps) ==
    IF resps = <<>> THEN <<>>
    ELSE split(Head(resps), attrib_separator) \o FlattenResponses(Tail(resps))

\* variant: results.pop() takes the value from the end of the list
MakeAttributeFromEnd(a, results) ==
    [name |-> a.name, value |-> results[Len(results)], units |-> a.units]

\* the attribute built for one requested entry from results.pop(0)
MakeAttribute(a, results) ==
    [name |-> a.name, value |-> Head(results), units |-> a.units]

\* variant: a missing value is replaced by an empty one instead of raising
RECURSIVE BuildAttributesPadded(_, _, _)
BuildAttributesPadded(attrs, results, acc) ==
    IF attrs = <<>> THEN [err |-> "none", attributes |-> acc, results |-> results]
    ELSE IF results = <<>>
         THEN BuildAttributesPadded(Tail(attrs), results,
                  Append(acc, [name |-> Head(attrs).name, value |-> <<>>,
                               units |-> Head(attrs).units]))
         ELSE BuildAttributesPadded(Tail(attrs), Tail(results),
                  Append(acc, [name |-> Head(attrs).name, value |-> Head(results),
                               units |-> Head(attrs).units]))

\* the second loop over the requested attributes; results.pop(0) on an
\* empty list raises IndexError
RECURSIVE BuildAttributes(_, _, _)
BuildAttributes(attrs, results, acc) ==
    IF attrs = <<>> THEN [err |-> "none", attributes |-> acc, results |-> results]
    ELSE IF results = <<>>
         THEN [err |-> "IndexError", attributes |-> <<>>, results |-> results]
         ELSE BuildAttributes(Tail(attrs), Tail(results),
                              Append(acc, MakeAttribute(Head(attrs), results)))

\* variant: left-over results are not looked at
ExtraResultsIgnored(results) == FALSE

\* the guard of the raise IOError("The query creation and response do not match!")
ExtraResults(results) == results # <<>>

parse_responses(req, resps) ==
    LET b == BuildAttributes(RequestedAttrs(req), FlattenResponses(resps), <<>>)
    IN  IF b.err # "none" THEN [err |-> b.err, attributes |-> <<>>]
        ELSE IF ExtraResults(b.results)
             THEN [err |-> "IOError", attributes |-> <<>>]
             ELSE [err |-> "none", attributes |-> b.attributes]

---------------------------------------------------------------------------
(* Inputs *)

\* the argument lists of set_requested_data when the planner is explored
PlanFields == SUBSET Names

\* the argument lists of set_requested_data when the parser is explored
ParseFields == {f \in SUBSET (Names \cup UnknownNames) : Cardinality(f) <= MaxFields}

\* the characters of a response string
ResponseChars == {"7", attrib_separator}

RECURSIVE SeqsUpTo(_, _)
SeqsUpTo(S, n) ==
    IF n = 0 THEN {<<>>}
    ELSE LET shorter == SeqsUpTo(S, n - 1)
         IN  shorter \cup {Append(s, e) : s \in shorter, e \in S}

ResponseStrings == SeqsUpTo(ResponseChars, MaxResponseLen)
ResponseLists == SeqsUpTo(ResponseStrings, MaxResponses)

\* a reply of the device: k values joined by the separator, then the terminator
RECURSIVE ReplyValues(_)
ReplyValues(k) ==
    IF k = 1 THEN <<"7">> ELSE ReplyValues(k - 1) \o <<attrib_separator, "7">>

DeviceReplies == {ReplyValues(k) \o <<end_of_str>> : k \in 1..MaxReplyValues}

---------------------------------------------------------------------------
(* State machine *)

Init ==
    /\ pc = "new"
    /\ provided_fields = {}
    /\ requested = [n \in Names |-> FALSE]
    /\ queries = <<>>
    /\ sent = <<>>
    /\ responses = <<>>
    /\ query_responses = <<>>
    /\ attributes = <<>>
    /\ error = "none"

\* variant: a flag set by an earlier call is kept
RequestedFlagSticky(old, var, fields) == old \/ var \in fields

\* the flag set_requested_data gives the attribute var
RequestedFlag(old, var, fields) == var \in fields

set_requested_data(fields) ==
    /\ requested' = [var \in Names |-> RequestedFlag(requested[var], var, fields)]
    /\ provided_fields' = fields
    /\ pc' = "requested"
    /\ queries' = <<>>
    /\ sent' = <<>>
    /\ responses' = <<>>
    /\ query_responses' = <<>>
    /\ attributes' = <<>>
    /\ error' = "none"

\* communicator.set_requested_data(fields), any number of times before the
\* plan is asked for
SetRequestedForPlan ==
    /\ pc \in {"new", "requested"}
    /\ \E fields \in PlanFields : set_requested_data(fields)

\* communicator.set_requested_data(fields), any number of times before the
\* responses are parsed
SetRequestedForParse ==
    /\ pc \in {"new", "requested"}
    /\ \E fields \in ParseFields : set_requested_data(fields)

\* queries = communicator.get_query_list()
GetQueryList ==
    /\ pc = "requested"
    /\ LET r == get_query_list(requested)
       IN  /\ queries' = r.queries
           /\ error' = r.err
           /\ pc' = IF r.err = "none" THEN "planned" ELSE "raised"
    /\ UNCHANGED <<provided_fields, requested, sent, responses,
                   query_responses, attributes>>

\* communicator.parse_responses(resps) for an arbitrary argument
ParseResponses ==
    /\ pc = "requested"
    /\ \E resps \in ResponseLists :
         LET r == parse_responses(requested, resps)
         IN  /\ query_responses' = resps
             /\ attributes' = r.attributes
             /\ error' = r.err
             /\ pc' = IF r.err = "none" THEN "parsed" ELSE "raised"
    /\ UNCHANGED <<provided_fields, requested, queries, sent, responses>>

\* query_device: communicator = SR830Communicator();
\* communicator.set_requested_data(desired_attribs)
BeginSession ==
    /\ pc = "new"
    /\ \E desired_attribs \in PlanFields : set_requested_data(desired_attribs)

\* the index in queries of the query the for loop takes next
NextQuery(alreadySent) == Len(alreadySent) + 1

\* query_device: device.query(query) is called, the reply is awaited
SendQuery ==
    /\ pc = "planned"
    /\ NextQuery(sent) <= Len(queries)
    /\ sent' = Append(sent, queries[NextQuery(sent)])
    /\ pc' = "awaiting"
    /\ UNCHANGED <<provided_fields, requested, queries, responses,
                   query_responses, attributes, error>>

\* query_device: device.query(query) returns; the text before the first
\* terminator is appended to responses
ReceiveResponse ==
    /\ pc = "awaiting"
    /\ \E raw \in DeviceReplies :
         responses' = Append(responses, Head(split(raw, end_of_str)))
    /\ pc' = "planned"
    /\ UNCHANGED <<provided_fields, requested, queries, sent,
                   query_responses, attributes, error>>

\* variant: the exception is swallowed and the loop goes on
AfterTransportErrorSwallowed == "planned"

\* the position of query_device after device.query(query) raised
AfterTransportError == "raised"

\* query_device: device.query(query) raises; the exception leaves query_device
TransportFails ==
    /\ pc = "awaiting"
    /\ error' = "TransportError"
    /\ pc' = AfterTransportError
    /\ UNCHANGED <<provided_fields, requested, queries, sent, responses,
                   query_responses, attributes>>

\* query_device: return communicator.parse_responses(responses)
ReturnParsed ==
    /\ pc = "planned"
    /\ NextQuery(sent) > Len(queries)
    /\ LET r == parse_responses(requested, responses)
       IN  /\ query_responses' = responses
           /\ attributes' = r.attributes
           /\ error' = r.err
           /\ pc' = IF r.err = "none" THEN "parsed" ELSE "raised"
    /\ UNCHANGED <<provided_fields, requested, queries, sent, responses>>

\* the planner: set_requested_data and get_query_list on one communicator
NextPlan == SetRequestedForPlan \/ GetQueryList
SpecPlan == Init /\ [][NextPlan]_vars

\* the parser: set_requested_data and parse_responses on one communicator
NextParse == SetRequestedForParse \/ ParseResponses
SpecParse == Init /\ [][NextParse]_vars

\* one session of query_device
Next ==
    \/ BeginSession
    \/ GetQueryList
    \/ SendQuery
    \/ ReceiveResponse
    \/ TransportFails
    \/ ReturnParsed
Spec == Init /\ [][Next]_vars

---------------------------------------------------------------------------
(* Vocabulary of the properties.  The token and order definitions below    *)
(* are stated by position and do not use the operators of the model.       *)

ReqNames == {n \in Names : requested[n]}

\* the k-th requested attribute in table-declaration order
NthRequested(k) ==
    Table[CHOOSE i \in 1..Len(Table) :
            /\ requested[Table[i].name]
            /\ Cardinality({j \in 1..(i - 1) : requested[Table[j].name]}) = k - 1]

SepPositions(s, sep) == {i \in 1..Len(s) : s[i] = sep}

\* position of the k-th separator; 0 before the first, Len(s) + 1 after the last
SepPosition(s, sep, k) ==
    IF k = 0 THEN 0
    ELSE IF k > Cardinality(SepPositions(s, sep)) THEN Len(s) + 1
    ELSE CHOOSE p \in SepPositions(s, sep) :
           Cardinality({q \in SepPositions(s, sep) : q < p}) = k - 1

\* the pieces of s between separators
Pieces(s, sep) ==
    [k \in 1..(Cardinality(SepPositions(s, sep)) + 1) |->
        SubSeq(s, SepPosition(s, sep, k - 1) + 1, SepPosition(s, sep, k) - 1)]

RECURSIVE ConcatAll(_)
ConcatAll(ss) == IF ss = <<>> THEN <<>> ELSE Head(ss) \o ConcatAll(Tail(ss))

IsBatchQuery(q) ==
    /\ Len(q) >= Len(snap_request_str)
    /\ SubSeq(q, 1, Len(snap_request_str)) = snap_request_str

\* the snap ids named in a batch query
BatchTokens(q) ==
    SelectSeq(Pieces(SubSeq(q, Len(snap_request_str) + 1, Len(q)), attrib_separator),
              LAMBDA t : t # <<>>)

\* the value tokens of the responses given to parse_responses
ValueTokens ==
    ConcatAll([i \in 1..Len(query_responses) |->
                  Pieces(query_responses[i], attrib_separator)])

PlanCalled == pc \in {"planned", "raised"}
ParseCalled == pc \in {"parsed", "raised"}

---------------------------------------------------------------------------
(* Planner properties, specification SpecPlan *)

\* C1: for 2 to 11 requested attributes, every batch query of the plan holds
\* at least 2 and at most 6 batch tokens.
C1_BatchSizeWithinRange ==
    (pc = "planned" /\ Cardinality(ReqNames) >= 2) =>
        \A i \in 1..Len(queries) :
            /\ Len(BatchTokens(queries[i])) >= snap_ids_range[1]
            /\ Len(BatchTokens(queries[i])) <= snap_ids_range[2]

\* C2: for 2 to 11 requested attributes, get_query_list returns without an
\* error, every query of the plan is a batch query, and the tokens of the
\* queries read in order are the snap ids of the requested attributes in
\* table-declaration order.
C2_TokensExactlySnapIds ==
    (PlanCalled /\ Cardinality(ReqNames) >= 2) =>
        /\ pc = "planned"
        /\ error = "none"
        /\ \A i \in 1..Len(queries) : IsBatchQuery(queries[i])
        /\ ConcatAll([i \in 1..Len(queries) |-> BatchTokens(queries[i])])
             = [k \in 1..Cardinality(ReqNames) |-> NthRequested(k).snap_id]

C2_Witness ==
    /\ pc = "planned"
    /\ Cardinality(ReqNames) = 11
    /\ Len(queries) = 3

\* C3: a single requested attribute that has a direct query gives the plan
\* holding exactly that direct query string.
C3_SingleDirectQuery ==
    (PlanCalled /\ Cardinality(ReqNames) = 1 /\ NthRequested(1).query_str # <<>>) =>
        /\ pc = "planned"
        /\ error = "none"
        /\ queries = <<NthRequested(1).query_str>>

\* C4: ref_freq requested alone makes get_query_list raise its error; no plan
\* is returned.
C4_LoneRefFreqRaises ==
    (PlanCalled /\ ReqNames = {"ref_freq"}) =>
        /\ pc = "raised"
        /\ error = "IOError"
        /\ queries = <<>>

\* C9: for n = 2..11 requested attributes the plan holds ceil(n/6) batch
\* queries, the least number a chunking within the bounds needs.
C9_MinimalQueryCount ==
    (pc = "planned" /\ Cardinality(ReqNames) >= 2) =>
        Len(queries) = (Cardinality(ReqNames) + snap_ids_range[2] - 1) \div snap_ids_range[2]

---------------------------------------------------------------------------
(* Parser properties, specification SpecParse *)

\* C5: when the responses hold as many value tokens as there are requested
\* attributes, parse_responses returns one result per requested attribute in
\* table order, the i-th with the name and units of the i-th requested
\* attribute and the i-th value token.
C5_ResultsLineUp ==
    (ParseCalled /\ Len(ValueTokens) = Cardinality(ReqNames)) =>
        /\ pc = "parsed"
        /\ Len(attributes) = Cardinality(ReqNames)
        /\ \A i \in 1..Len(attributes) :
             attributes[i] = [name |-> NthRequested(i).name,
                              value |-> ValueTokens[i],
                              units |-> NthRequested(i).units]

C5_Witness ==
    /\ pc = "parsed"
    /\ Cardinality(ReqNames) = 2
    /\ Len(query_responses) = 2
    /\ attributes[1].value # attributes[2].value

\* C6: when the responses hold more value tokens than there are requested
\* attributes, parse_responses raises the mismatch IOError and returns nothing.
C6_SurplusRaises ==
    (ParseCalled /\ Len(ValueTokens) > Cardinality(ReqNames)) =>
        /\ pc = "raised"
        /\ error = "IOError"
        /\ attributes = <<>>

C6_Witness ==
    /\ pc = "raised"
    /\ ReqNames = {}
    /\ Len(ValueTokens) = 1

C10_LastCallDecides ==
    /\ pc # "new" => ReqNames = provided_fields \cap Names
    /\ pc = "requested" => error = "none"
    /\ pc = "parsed" =>
         \A i \in 1..Len(attributes) : attributes[i].name \in provided_fields \cap Names

C10_Witness ==
    /\ pc = "parsed"
    /\ provided_fields \cap UnknownNames # {}
    /\ Len(attributes) = 1

---------------------------------------------------------------------------
(* Session property, specification Spec *)

\* a query of the session is in flight or has failed
Outstanding == IF pc = "awaiting" \/ error = "TransportError" THEN 1 ELSE 0

\* C8: the transport receives the queries of the plan, each once and in plan
\* order, a query being sent only after the response to the previous one was
\* received; after a failed send nothing more is sent and the session fails
\* without a result.
C8_SequentialSends ==
    /\ [](/\ Len(sent) <= Len(queries)
          /\ sent = SubSeq(queries, 1, Len(sent))
          /\ Len(responses) = Len(sent) - Outstanding
          /\ (pc = "parsed" => sent = queries /\ Len(responses) = Len(queries))
          /\ (error = "TransportError" => pc = "raised" /\ attributes = <<>>))
    /\ [][/\ sent' # sent => (error = "none" /\ Len(responses) = Len(sent))
          /\ error = "TransportError" => UNCHANGED vars]_vars

C8_Witness ==
    /\ error = "TransportError"
    /\ Len(queries) = 3
    /\ Len(sent) = 2

====
